---- MODULE Spec2Model ----
(***************************************************************************)
(* The event dispatch engine of invisible_ui: EventManager                 *)
(* (events/eventManager.py) and the Handler it registers.                  *)
(*                                                                         *)
(* The manager's registry _events maps an event type to the ordered list   *)
(* of the handlers registered under it.  Handlers are objects: they live   *)
(* in `handlers` (the heap, indexed by identity) and the registry holds    *)
(* their identities, since list.remove compares Handler objects, which     *)
(* define no __eq__, by identity.                                          *)
(***************************************************************************)
EXTENDS Integers, Sequences, FiniteSets, TLC

VARIABLES
    events,     \* EventManager._events: event type -> list of handler ids
    handlers,   \* the Handler objects created so far, by identity 1..Len
    running,    \* session.running, read by the handler's gate
    event,      \* EventManager.event, assigned by change_event_*
    logger,     \* EventManager._logger
    last,       \* the last call made on the manager or a handler: its outcome
    removed     \* history: the handlers a remove_handler call has removed

vars == <<events, handlers, running, event, logger, last, removed>>

(***************************************************************************)
(* Bounds and input domains.                                               *)
(***************************************************************************)
MaxHandlers == 3

KEYDOWN == "KEYDOWN"
KEYUP == "KEYUP"
Types == {KEYDOWN, KEYUP}

K_RETURN == "K_RETURN"
K_ESCAPE == "K_ESCAPE"
K_UP == "K_UP"
K_DOWN == "K_DOWN"
KMOD_SHIFT == "KMOD_SHIFT"

\* getattr's "no such attribute" on an event
NoField == "<absent>"
None == "None"

\* A matcher (a value of add_handler's **kwargs) is a plain value or a
\* one-argument callable.  A callable is known by the set of values it
\* accepts and by what it answers when handed a function object.
Literal(v) == [callable |-> FALSE, val |-> v, accepts |-> {}, onSelf |-> FALSE]
Pred(S, self) == [callable |-> TRUE, val |-> "<lambda>", accepts |-> S, onSelf |-> self]

\* lambda v: v in (K_UP, K_DOWN)
InUpDown == Pred({K_UP, K_DOWN}, FALSE)
\* lambda v: callable(v) or v == KMOD_SHIFT
ShiftOrSelf == Pred({KMOD_SHIFT}, TRUE)

Entry(k, v) == [name |-> k, matcher |-> v]

\* The **kwargs mappings offered to add_handler and change_event_params, each
\* in its insertion order.
ParamChoices ==
    { << >>,
      << Entry("key", Literal(K_RETURN)) >>,
      << Entry("key", Literal(K_ESCAPE)) >>,
      << Entry("key", InUpDown) >>,
      << Entry("key", InUpDown), Entry("mod", ShiftOrSelf) >>,
      << Entry("mod", ShiftOrSelf), Entry("key", InUpDown) >> }

\* The `actions` argument: one callable, or a list of callables.
Single(a) == [isList |-> FALSE, items |-> <<a>>]
List(s) == [isList |-> TRUE, items |-> s]

\* The events the host dispatches.
Events ==
    [type : Types,
     key : {K_RETURN, K_ESCAPE, K_UP, NoField},
     mod : {KMOD_SHIFT, NoField}]

NoEvent == [type |-> None, key |-> NoField, mod |-> NoField]

\* What a caller may hand over as a logger: nothing, a logging.Logger, or a
\* value of another type (a str, say).
Logger == "Logger"
NotALogger == "NotALogger"
LoggerArgs == {None, Logger, NotALogger}

(***************************************************************************)
(* Handler                                                                 *)
(***************************************************************************)
\* Handler.__init__(session, type, params, func, docstring=None,
\* always_active=False).  The docstring serves get_help alone and is left out.
Handler(session, type, params, func, always_active) ==
    [session |-> session,
     type |-> type,
     params |-> params,
     func |-> func,
     always_active |-> always_active]

\* handler.actions: the ordered list of actions, a single action given at
\* construction being a list of one.
HandlerActions(hr) == hr.func.items

\* handler.event
HandlerEvent(hr) == None

HandlerIds == 1..Len(handlers)

\* The pause gate: self.session.running or self.always_active
GateRunningOnly(h) == running
GateAlwaysActiveOnly(h) == handlers[h].always_active
GateOpen(h) == TRUE
Gate(h) == running \/ handlers[h].always_active

\* Handler.call_func(*args): the gate, then self.func(self, *args).  The
\* calls made, in order.
call_func(h) ==
    IF Gate(h) THEN << handlers[h].func.items[1] >> ELSE << >>

\* Handler.call_actions(event): the gate, then every action of the list, in
\* order.  The calls made, in order.
call_actions(h) ==
    IF Gate(h) THEN HandlerActions(handlers[h]) ELSE << >>

\* The outcome of a call: what it was given, what it returned or raised, the
\* handler handle_event selected (or the handler a change registered) and
\* the actions invoked.
Call(op, h) ==
    [op |-> op, h |-> h, ev |-> NoEvent, kwargs |-> << >>, actions |-> << >>,
     ret |-> None, err |-> "none", sel |-> 0, invoked |-> << >>, logged |-> FALSE]

Raised(op, h, err) == [Call(op, h) EXCEPT !.ret = "raise", !.err = err]

(***************************************************************************)
(* EventManager.handle_event                                               *)
(***************************************************************************)
\* getattr(event, k, v): the event's attribute, or the default v itself
GetAttr(e, k, v) ==
    IF e[k] = NoField THEN [isDefault |-> TRUE, val |-> NoField]
    ELSE [isDefault |-> FALSE, val |-> e[k]]

\* v(getattr(event, k, v)) for one entry of h.params: "TypeError" when v is
\* not callable (every matcher is called), else the truth of the call.
CallMatcher(e, k, v) ==
    LET actual == GetAttr(e, k, v)
    IN  IF ~v.callable THEN "TypeError"
        ELSE IF actual.isDefault
             THEN (IF v.onSelf THEN "True" ELSE "False")
             ELSE (IF actual.val \in v.accepts THEN "True" ELSE "False")

\* The inner loop over h.params.items() from entry i on: "break" at the first
\* falsy call, "else" when the loop runs out, "TypeError" when a call raises.
RECURSIVE ScanParams(_, _, _)
ScanParams(params, e, i) ==
    IF i > Len(params) THEN "else"
    ELSE LET r == CallMatcher(e, params[i].name, params[i].matcher)
         IN  IF r = "TypeError" THEN "TypeError"
             ELSE IF r = "False" THEN "break"
             ELSE ScanParams(params, e, i + 1)

\* dict.get(key, [])
Get(d, k) == IF k \in DOMAIN d THEN d[k] ELSE << >>

\* The outer loop over self._events.get(event.type, []) from position i on.
RECURSIVE ScanHandlers(_, _, _)
ScanHandlers(l, e, i) ==
    IF i > Len(l)
    THEN [Call("handle_event", 0) EXCEPT !.ev = e, !.ret = "False"]
    ELSE LET r == ScanParams(handlers[l[i]].params, e, 1)
         IN  IF r = "TypeError"
             THEN [Raised("handle_event", 0, "TypeError") EXCEPT !.ev = e]
             ELSE IF r = "else"
             THEN \* h.call_actions(event), then self._logger.debug(...) when a
                  \* logger is set: a value without a debug method raises
                  \* AttributeError, after the actions have run.
                  IF logger = NotALogger
                  THEN [Raised("handle_event", 0, "AttributeError") EXCEPT !.ev = e,
                            !.sel = l[i], !.invoked = call_actions(l[i])]
                  ELSE [Call("handle_event", 0) EXCEPT !.ev = e, !.ret = "True",
                            !.sel = l[i], !.invoked = call_actions(l[i]),
                            !.logged = (logger # None)]
             ELSE ScanHandlers(l, e, i + 1)

handle_event(e) ==
    /\ last' = ScanHandlers(Get(events, e.type), e, 1)
    /\ UNCHANGED <<events, handlers, running, event, removed, logger>>

HandleEventIn(Es) == \E e \in Es : handle_event(e)

(***************************************************************************)
(* EventManager.add_handler                                                *)
(***************************************************************************)
\* d[k] = l
Put(d, k, l) == [x \in DOMAIN d \cup {k} |-> IF x = k THEN l ELSE d[x]]

\* add_handler(type, actions, **kwargs) on the registry evs: the Handler it
\* builds, whose identity is h, and the registry it leaves.
AddOutcomeFront(evs, type, actions, kwargs) ==
    [h |-> Len(handlers) + 1,
     handler |-> Handler("self", type, kwargs, actions, FALSE),
     events |-> Put(evs, type, << Len(handlers) + 1 >> \o Get(evs, type))]
AddOutcome(evs, type, actions, kwargs) ==
    [h |-> Len(handlers) + 1,
     handler |-> Handler("self", type, kwargs, actions, FALSE),
     events |-> Put(evs, type, Append(Get(evs, type), Len(handlers) + 1))]

add_handler(type, actions, kwargs) ==
    /\ Len(handlers) < MaxHandlers
    /\ LET a == AddOutcome(events, type, actions, kwargs)
       IN  /\ handlers' = Append(handlers, a.handler)
           /\ events' = a.events
           /\ last' = [Call("add_handler", a.h)
                          EXCEPT !.kwargs = kwargs, !.actions = actions.items,
                                 !.ret = "Handler"]
    /\ UNCHANGED <<running, event, removed, logger>>

AddHandlerIn(Ts, As, Ps) ==
    \E t \in Ts, a \in As, p \in Ps : add_handler(t, a, p)

(***************************************************************************)
(* EventManager.remove_handler                                             *)
(***************************************************************************)
\* list.remove(x): the list without its first element equal to x
ListRemoveHead(l, x) == Tail(l)
RECURSIVE ListRemove(_, _)
ListRemove(l, x) ==
    IF l = << >> THEN << >>
    ELSE IF Head(l) = x THEN Tail(l)
    ELSE << Head(l) >> \o ListRemove(Tail(l), x)

InList(l, x) == \E i \in 1..Len(l) : l[i] = x

\* The outcome of remove_handler(h): what it returns or raises, and the
\* registry it leaves.  self._events[handler.type] raises KeyError when the
\* type has no entry; list.remove raises ValueError, which is caught, when
\* the handler is not in the list.
RemoveOutcomeNoCatch(h) ==
    LET t == handlers[h].type
    IN  IF t \notin DOMAIN events
        THEN [ret |-> "raise", err |-> "KeyError", events |-> events]
        ELSE IF InList(events[t], h)
        THEN [ret |-> "True", err |-> "none",
              events |-> Put(events, t, ListRemove(events[t], h))]
        ELSE [ret |-> "raise", err |-> "ValueError", events |-> events]
RemoveOutcomeKeeps(h) ==
    LET t == handlers[h].type
    IN  IF t \notin DOMAIN events
        THEN [ret |-> "raise", err |-> "KeyError", events |-> events]
        ELSE IF InList(events[t], h)
        THEN [ret |-> "True", err |-> "none", events |-> events]
        ELSE [ret |-> "False", err |-> "none", events |-> events]
RemoveOutcomeAlwaysTrue(h) ==
    LET t == handlers[h].type
    IN  IF t \notin DOMAIN events
        THEN [ret |-> "raise", err |-> "KeyError", events |-> events]
        ELSE [ret |-> "True", err |-> "none",
              events |-> Put(events, t, ListRemove(events[t], h))]
RemoveOutcome(h) ==
    LET t == handlers[h].type
    IN  IF t \notin DOMAIN events
        THEN [ret |-> "raise", err |-> "KeyError", events |-> events]
        ELSE IF InList(events[t], h)
        THEN [ret |-> "True", err |-> "none",
              events |-> Put(events, t, ListRemove(events[t], h))]
        ELSE [ret |-> "False", err |-> "none", events |-> events]

remove_handler(h) ==
    /\ LET r == RemoveOutcome(h)
       IN  /\ events' = r.events
           /\ last' = [Call("remove_handler", h) EXCEPT !.ret = r.ret, !.err = r.err]
           /\ removed' = IF r.ret = "True" THEN removed \cup {h} ELSE removed
    /\ UNCHANGED <<handlers, running, event, logger>>

RemoveHandler == \E h \in HandlerIds : remove_handler(h)

(***************************************************************************)
(* EventManager.change_event_params, change_event_actions                  *)
(***************************************************************************)
\* An argument that is not a Handler object.
NotAHandler == 0

change_event_params_old_params(handler, kwargs) ==
    IF handler = NotAHandler
    THEN /\ last' = [Raised("change_event_params", handler, "TypeError")
                        EXCEPT !.kwargs = kwargs]
         /\ UNCHANGED <<events, handlers, running, event, removed, logger>>
    ELSE LET r == RemoveOutcome(handler)
         IN  IF r.ret = "raise"
             THEN /\ last' = [Raised("change_event_params", handler, r.err)
                                 EXCEPT !.kwargs = kwargs]
                  /\ UNCHANGED <<events, handlers, running, event, removed, logger>>
             ELSE IF r.ret = "False"
             THEN /\ last' = [Raised("change_event_params", handler, "ValueError")
                                 EXCEPT !.kwargs = kwargs]
                  /\ UNCHANGED <<events, handlers, running, event, removed, logger>>
             ELSE \* self.add_handler(handler.type, handler.actions, **kwargs)
                  \* self.event = handler.event
                  /\ Len(handlers) < MaxHandlers
                  /\ LET old == handlers[handler]
                         a == AddOutcome(r.events, old.type,
                                         List(HandlerActions(old)), old.params)
                     IN  /\ handlers' = Append(handlers, a.handler)
                         /\ events' = a.events
                         /\ event' = HandlerEvent(old)
                         /\ last' = [Call("change_event_params", handler)
                                        EXCEPT !.kwargs = kwargs, !.sel = a.h]
                  /\ UNCHANGED <<running, removed, logger>>
change_event_params(handler, kwargs) ==
    IF handler = NotAHandler
    THEN /\ last' = [Raised("change_event_params", handler, "TypeError")
                        EXCEPT !.kwargs = kwargs]
         /\ UNCHANGED <<events, handlers, running, event, removed, logger>>
    ELSE LET r == RemoveOutcome(handler)
         IN  IF r.ret = "raise"
             THEN /\ last' = [Raised("change_event_params", handler, r.err)
                                 EXCEPT !.kwargs = kwargs]
                  /\ UNCHANGED <<events, handlers, running, event, removed, logger>>
             ELSE IF r.ret = "False"
             THEN /\ last' = [Raised("change_event_params", handler, "ValueError")
                                 EXCEPT !.kwargs = kwargs]
                  /\ UNCHANGED <<events, handlers, running, event, removed, logger>>
             ELSE \* self.add_handler(handler.type, handler.actions, **kwargs)
                  \* self.event = handler.event
                  /\ Len(handlers) < MaxHandlers
                  /\ LET old == handlers[handler]
                         a == AddOutcome(r.events, old.type,
                                         List(HandlerActions(old)), kwargs)
                     IN  /\ handlers' = Append(handlers, a.handler)
                         /\ events' = a.events
                         /\ event' = HandlerEvent(old)
                         /\ last' = [Call("change_event_params", handler)
                                        EXCEPT !.kwargs = kwargs, !.sel = a.h]
                  /\ UNCHANGED <<running, removed, logger>>

ChangeEventParamsIn(Ps) ==
    \E h \in HandlerIds \cup {NotAHandler}, p \in Ps : change_event_params(h, p)

\* self.add_handler(handler.type, actions, handler.params) hands add_handler a
\* third positional argument, which its signature (type, actions, **kwargs)
\* does not take: the call raises TypeError before add_handler runs, after the
\* removal has been done.
change_event_actions(handler, actions) ==
    IF handler = NotAHandler
    THEN /\ last' = [Raised("change_event_actions", handler, "TypeError")
                        EXCEPT !.actions = actions.items]
         /\ UNCHANGED <<events, handlers, running, event, removed, logger>>
    ELSE LET r == RemoveOutcome(handler)
         IN  IF r.ret = "raise"
             THEN /\ last' = [Raised("change_event_actions", handler, r.err)
                                 EXCEPT !.actions = actions.items]
                  /\ UNCHANGED <<events, handlers, running, event, removed, logger>>
             ELSE IF r.ret = "False"
             THEN /\ last' = [Raised("change_event_actions", handler, "ValueError")
                                 EXCEPT !.actions = actions.items]
                  /\ UNCHANGED <<events, handlers, running, event, removed, logger>>
             ELSE /\ events' = r.events
                  /\ last' = [Raised("change_event_actions", handler, "TypeError")
                                 EXCEPT !.actions = actions.items]
                  /\ UNCHANGED <<handlers, running, event, removed, logger>>

ChangeEventActionsIn(As) ==
    \E h \in HandlerIds \cup {NotAHandler}, a \in As : change_event_actions(h, a)

(***************************************************************************)
(* The client's own use of Handler and of the session.                     *)
(***************************************************************************)
\* Handler(session, type, params, func) built by the client for another
\* session: a Handler no add_handler of this manager has registered.
NewHandler(type, actions, params) ==
    /\ Len(handlers) < MaxHandlers
    /\ handlers' = Append(handlers, Handler("other", type, params, actions, FALSE))
    /\ last' = [Call("Handler", Len(handlers) + 1) EXCEPT !.ret = "Handler"]
    /\ UNCHANGED <<events, running, event, removed, logger>>

NewHandlerIn(Ts, As, Ps) ==
    \E t \in Ts, a \in As, p \in Ps : NewHandler(t, a, p)

\* handler.always_active = True
SetAlwaysActive ==
    \E h \in HandlerIds :
        /\ ~handlers[h].always_active
        /\ handlers' = [handlers EXCEPT ![h].always_active = TRUE]
        /\ last' = Call("set_always_active", h)
        /\ UNCHANGED <<events, running, event, removed, logger>>

\* The session is paused or resumed.
SetRunning ==
    /\ running' = ~running
    /\ last' = Call("set_running", 0)
    /\ UNCHANGED <<events, handlers, event, removed, logger>>

\* handler.call_func() on a Handler whose func is one callable.
CallFunc ==
    \E h \in HandlerIds :
        /\ ~handlers[h].func.isList
        /\ last' = [Call("call_func", h) EXCEPT !.sel = h, !.invoked = call_func(h)]
        /\ UNCHANGED <<events, handlers, running, event, removed, logger>>

(***************************************************************************)
(* EventManager.logger (setter)                                            *)
(***************************************************************************)
\* manager.logger = x: ValueError when x is None or no logging.Logger
set_logger(x) ==
    IF x = None \/ x # Logger
    THEN /\ last' = Raised("set_logger", 0, "ValueError")
         /\ UNCHANGED <<events, handlers, running, event, removed, logger>>
    ELSE /\ logger' = x
         /\ last' = Call("set_logger", 0)
         /\ UNCHANGED <<events, handlers, running, event, removed>>

SetLogger == \E x \in LoggerArgs : set_logger(x)

(***************************************************************************)
(* Specifications                                                          *)
(***************************************************************************)
\* EventManager.__init__: an empty registry.  No handler exists yet.
Init ==
    /\ events = [t \in {} |-> << >>]
    /\ handlers = << >>
    /\ running \in BOOLEAN
    /\ event = "unset"
    /\ logger = None
    /\ last = Call("init", 0)
    /\ removed = {}

\* Dispatch: handlers of every filter shape, events of every shape.
DispatchActions == { Single("a1"), Single("a2") }

NextDispatch ==
    \/ AddHandlerIn(Types, DispatchActions, ParamChoices)
    \/ HandleEventIn(Events)

SpecDispatch == Init /\ [][NextDispatch]_vars

\* The pause gate: always-active handlers, a session paused and resumed.
GateParams == { << >>, << Entry("key", InUpDown) >> }
GateActions == { Single("a1"), List(<<"a1", "a2">>) }
GateEvents ==
    { e \in Events : e.type = KEYDOWN /\ e.key \in {K_UP, K_RETURN} /\ e.mod = NoField }

NextGate ==
    \/ AddHandlerIn({KEYDOWN}, GateActions, GateParams)
    \/ HandleEventIn(GateEvents)
    \/ SetAlwaysActive
    \/ SetRunning
    \/ CallFunc

SpecGate == Init /\ [][NextGate]_vars

\* The registry: registration, removal and modification.
RegistryParams == { << >>, << Entry("key", Literal(K_RETURN)) >> }
NewParams == { << Entry("key", Literal(K_ESCAPE)) >> }
RegistryActions == { Single("a1") }
NewActions == { Single("a2") }
RegistryEvents ==
    { e \in Events : e.type = KEYDOWN /\ e.key \in {K_RETURN, K_UP} /\ e.mod = NoField }

Next ==
    \/ AddHandlerIn(Types, RegistryActions, RegistryParams)
    \/ NewHandlerIn(Types, RegistryActions, { << >> })
    \/ RemoveHandler
    \/ ChangeEventParamsIn(NewParams)
    \/ ChangeEventActionsIn(NewActions)
    \/ HandleEventIn(RegistryEvents)

Spec == Init /\ [][Next]_vars

\* The logger: EventManager.__init__(logger) keeps whatever it is given.
InitLogger ==
    /\ events = [t \in {} |-> << >>]
    /\ handlers = << >>
    /\ running \in BOOLEAN
    /\ event = "unset"
    /\ logger \in LoggerArgs
    /\ last = Call("init", 0)
    /\ removed = {}

NextLogger ==
    \/ SetLogger
    \/ AddHandlerIn({KEYDOWN}, GateActions, GateParams)
    \/ HandleEventIn(GateEvents)

SpecLogger == InitLogger /\ [][NextLogger]_vars

\* Filter order: the same two entries in either order, one of them a plain
\* value in two of the mappings.
OrderParams ==
    { << Entry("key", InUpDown), Entry("mod", ShiftOrSelf) >>,
      << Entry("mod", ShiftOrSelf), Entry("key", InUpDown) >>,
      << Entry("key", InUpDown), Entry("mod", Literal(KMOD_SHIFT)) >>,
      << Entry("mod", Literal(KMOD_SHIFT)), Entry("key", InUpDown) >> }
OrderEvents == { e \in Events : e.type = KEYDOWN }

NextOrder ==
    \/ AddHandlerIn({KEYDOWN}, DispatchActions, OrderParams)
    \/ HandleEventIn(OrderEvents)

SpecOrder == Init /\ [][NextOrder]_vars

(***************************************************************************)
(* The matcher semantics the documentation states (add_handler's docstring:*)
(* a keyword's value is matched against the event's attribute, or is a     *)
(* lambda that must evaluate to True), against which dispatch is compared. *)
(***************************************************************************)
\* One filter entry is satisfied by event e: a plain value equals the actual
\* value, a callable answers truthy on it; the actual value of a field the
\* event lacks is the matcher itself.
Satisfied(e, entry) ==
    LET v == entry.matcher
    IN  IF e[entry.name] = NoField
        THEN (IF v.callable THEN v.onSelf ELSE TRUE)
        ELSE (IF v.callable THEN e[entry.name] \in v.accepts
                            ELSE e[entry.name] = v.val)

\* Every filter entry of handler h is satisfied by e.
AllSatisfied(h, e) ==
    \A i \in 1..Len(handlers[h].params) : Satisfied(e, handlers[h].params[i])

\* Every field a filter of list l names is present on e.
FieldsPresent(l, e) ==
    \A i \in 1..Len(l) : \A j \in 1..Len(handlers[l[i]].params) :
        e[handlers[l[i]].params[j].name] # NoField

\* The first handler of l whose filters e satisfies, 0 when there is none.
FirstSatisfied(l, e) ==
    IF \E i \in 1..Len(l) : AllSatisfied(l[i], e)
    THEN l[CHOOSE i \in 1..Len(l) :
               AllSatisfied(l[i], e) /\ \A k \in 1..(i - 1) : ~AllSatisfied(l[k], e)]
    ELSE 0

\* The list handle_event has just scanned.
Scanned == Get(events, last.ev.type)

(***************************************************************************)
(* C1: first match wins.  For two handlers H1, H2 registered in that order *)
(* under the event's type, both with all filters satisfied by the event    *)
(* and no earlier handler matching, handle_event returns true and the      *)
(* handler whose actions it invokes is H1, never H2.                       *)
(***************************************************************************)
C1_FirstMatchWins ==
    last.op = "handle_event" =>
        \A i, j \in 1..Len(Scanned) :
            ( /\ i < j
              /\ AllSatisfied(Scanned[i], last.ev)
              /\ AllSatisfied(Scanned[j], last.ev)
              /\ \A k \in 1..(i - 1) : ~AllSatisfied(Scanned[k], last.ev) )
            => /\ last.ret = "True"
               /\ last.sel = Scanned[i]

(***************************************************************************)
(* C2: matcher semantics.  When every filtered field is present on the     *)
(* event, handle_event raises nothing and selects the first handler whose  *)
(* entries are all satisfied, a plain matcher being satisfied exactly when *)
(* the field equals it and a callable exactly when it answers truthy.      *)
(***************************************************************************)
C2_MatcherSemantics ==
    (last.op = "handle_event" /\ FieldsPresent(Scanned, last.ev)) =>
        /\ last.err = "none"
        /\ last.sel = FirstSatisfied(Scanned, last.ev)

(***************************************************************************)
(* C3: handle_event returns true if and only if some handler registered    *)
(* under the event's type has all its filters satisfied; otherwise it      *)
(* returns false, invokes no action and raises no error.                   *)
(***************************************************************************)
C3_ReturnsTrueIffMatch ==
    last.op = "handle_event" =>
        IF \E i \in 1..Len(Scanned) : AllSatisfied(Scanned[i], last.ev)
        THEN last.ret = "True"
        ELSE last.ret = "False" /\ last.invoked = << >> /\ last.err = "none"

(***************************************************************************)
(* C4: a handler with an empty filter mapping matches every event of its   *)
(* type: with one in the list, handle_event returns true, and selects it   *)
(* when no earlier handler matches.                                        *)
(***************************************************************************)
C4_EmptyFilterMatches ==
    last.op = "handle_event" =>
        \A i \in 1..Len(Scanned) :
            handlers[Scanned[i]].params = << >> =>
                /\ last.ret = "True"
                /\ (\A k \in 1..(i - 1) : ~AllSatisfied(Scanned[k], last.ev))
                       => last.sel = Scanned[i]

(***************************************************************************)
(* C5: the pause gate.  A gated invocation (call_func, or the call         *)
(* handle_event makes on the handler it selected) invokes the handler's    *)
(* action if and only if the session is running or the handler is always   *)
(* active, and raises nothing either way.                                  *)
(***************************************************************************)
C5_PauseGate ==
    /\ last.op = "call_func" =>
           /\ last.err = "none"
           /\ last.invoked =
                  IF running \/ handlers[last.h].always_active
                  THEN << handlers[last.h].func.items[1] >> ELSE << >>
    /\ (last.op = "handle_event" /\ last.sel # 0) =>
           /\ last.err = "none"
           /\ last.invoked # << >> <=> (running \/ handlers[last.sel].always_active)

\* A paused session, an always-active handler, its action invoked.
C5_Witness ==
    /\ last.op = "call_func"
    /\ ~running
    /\ handlers[last.h].always_active
    /\ last.invoked # << >>

\* Handler h is in the list registered under its type.
IsRegistered(h) ==
    /\ handlers[h].type \in DOMAIN events
    /\ InList(events[handlers[h].type], h)

(***************************************************************************)
(* C6: remove_handler is idempotent-safe.  On a handler add_handler made,  *)
(* a call never raises; while the handler is registered (the first call)   *)
(* it returns true and takes the handler out of its list; once a call has  *)
(* removed it (the second call) it returns false and leaves the registry   *)
(* unchanged.                                                              *)
(***************************************************************************)
C6_RemoveIdempotent ==
    [][ (last'.op = "remove_handler" /\ handlers[last'.h].session = "self") =>
            LET h == last'.h
                t == handlers[h].type
            IN  /\ last'.err = "none"
                /\ IsRegistered(h) =>
                       /\ last'.ret = "True"
                       /\ ~InList(events'[t], h)
                       /\ Len(events'[t]) = Len(events[t]) - 1
                /\ (h \in removed \/ ~IsRegistered(h)) =>
                       /\ last'.ret = "False"
                       /\ events' = events ]_vars

\* A second remove_handler call on a handler the first call removed.
C6_Witness ==
    /\ last.op = "remove_handler"
    /\ handlers[last.h].session = "self"
    /\ last.h \in removed
    /\ last.ret = "False"

(***************************************************************************)
(* C7: remove_handler on a handler whose type has no entry in the registry *)
(* returns false, raises nothing and leaves the registry unchanged.        *)
(***************************************************************************)
C7_RemoveUnknownType ==
    [][ (last'.op = "remove_handler" /\ handlers[last'.h].type \notin DOMAIN events) =>
            /\ last'.ret = "False"
            /\ last'.err = "none"
            /\ events' = events ]_vars

(***************************************************************************)
(* C8: change_event_params on a registered handler raises nothing and      *)
(* replaces the registration: the list of its type keeps its length, the   *)
(* old handler is gone, and the new one has the same type and actions and  *)
(* the new filter mapping; the other handlers and types are untouched.     *)
(* After A's filter {key: K_RETURN} is changed to {key: K_ESCAPE} beside a *)
(* catch-all B, a K_RETURN event selects B.                                *)
(***************************************************************************)
C8_Replaced ==
    (last'.op = "change_event_params" /\ last'.h # NotAHandler /\ IsRegistered(last'.h)) =>
        LET h == last'.h
            n == last'.sel
            t == handlers[h].type
        IN  /\ last'.err = "none"
            /\ n \notin HandlerIds
            /\ DOMAIN events' = DOMAIN events
            /\ \A u \in DOMAIN events \ {t} : events'[u] = events[u]
            /\ Len(events'[t]) = Len(events[t])
            /\ ~InList(events'[t], h)
            /\ InList(events'[t], n)
            /\ \A x \in HandlerIds \ {h} : InList(events'[t], x) <=> InList(events[t], x)
            /\ handlers'[n].type = t
            /\ HandlerActions(handlers'[n]) = HandlerActions(handlers[h])
            /\ handlers'[n].params = last'.kwargs

C8_Scenario ==
    ( /\ last.op = "handle_event"
      /\ last.ev.key = K_RETURN
      /\ Len(Scanned) = 2
      /\ handlers[Scanned[1]].params = << >>
      /\ handlers[Scanned[2]].params = << Entry("key", Literal(K_ESCAPE)) >> )
    => /\ last.ret = "True"
       /\ last.sel = Scanned[1]

C8_ChangeEventParams == [][C8_Replaced]_vars /\ []C8_Scenario

\* The K_RETURN event dispatched after A was changed: B is selected.
C8_Witness ==
    /\ last.op = "handle_event"
    /\ last.ev.key = K_RETURN
    /\ Len(Scanned) = 2
    /\ handlers[Scanned[1]].params = << >>
    /\ handlers[Scanned[2]].params = << Entry("key", Literal(K_ESCAPE)) >>
    /\ Scanned[2] = 3
    /\ ~IsRegistered(1)
    /\ last.sel = Scanned[1]

(***************************************************************************)
(* C9: change_event_actions on a registered handler raises nothing and     *)
(* replaces the registration: the list of its type keeps its length and    *)
(* holds, in place of the old handler, one with the same type and filter   *)
(* mapping and the new actions.                                            *)
(***************************************************************************)
C9_ChangeEventActions ==
    [][ (last'.op = "change_event_actions" /\ last'.h # NotAHandler
            /\ IsRegistered(last'.h)) =>
            LET h == last'.h
                t == handlers[h].type
            IN  /\ last'.err = "none"
                /\ Len(events'[t]) = Len(events[t])
                /\ ~InList(events'[t], h)
                /\ \E i \in 1..Len(events'[t]) :
                       LET n == handlers'[events'[t][i]]
                       IN  /\ n.type = t
                           /\ n.params = handlers[h].params
                           /\ HandlerActions(n) = last'.actions ]_vars

(***************************************************************************)
(* C10: change_event_params and change_event_actions given something that  *)
(* is not a Handler, or a Handler that is not registered, raise an error   *)
(* to the caller and leave the registry and the handlers as they were.     *)
(***************************************************************************)
C10_ChangeRejects ==
    [][ (last'.op \in {"change_event_params", "change_event_actions"}
            /\ (last'.h = NotAHandler \/ ~IsRegistered(last'.h))) =>
            /\ last'.ret = "raise"
            /\ last'.err = IF last'.h = NotAHandler THEN "TypeError"
                           ELSE IF handlers[last'.h].type \in DOMAIN events
                           THEN "ValueError" ELSE "KeyError"
            /\ events' = events
            /\ handlers' = handlers ]_vars

\* change_event_params on a handler that remove_handler has removed.
C10_Witness ==
    /\ last.op = "change_event_params"
    /\ last.h # NotAHandler
    /\ last.h \in removed
    /\ last.err = "ValueError"

(***************************************************************************)
(* C11: modification is atomic.  Whenever change_event_params or           *)
(* change_event_actions raises, the registry is what it was before the     *)
(* call: the handler is never left removed without its replacement.        *)
(***************************************************************************)
C11_ChangeAtomic ==
    [][ (last'.op \in {"change_event_params", "change_event_actions"}
            /\ last'.ret = "raise") =>
            events' = events ]_vars

(***************************************************************************)
(* C12: add_handler appends exactly one new handler, bound to this         *)
(* manager, at the end of the list of its type (an empty list when the     *)
(* type had none), returns it, and leaves the entries before it and the    *)
(* lists of the other types unchanged; every list is therefore in the      *)
(* order its handlers were made.                                           *)
(***************************************************************************)
C12_Appended ==
    last'.op = "add_handler" =>
        LET h == last'.h
            t == handlers'[h].type
        IN  /\ last'.err = "none"
            /\ h \notin HandlerIds
            /\ handlers' = Append(handlers, handlers'[h])
            /\ handlers'[h].session = "self"
            /\ handlers'[h].params = last'.kwargs
            /\ HandlerActions(handlers'[h]) = last'.actions
            /\ DOMAIN events' = DOMAIN events \cup {t}
            /\ events'[t] = Append(Get(events, t), h)
            /\ \A u \in DOMAIN events \ {t} : events'[u] = events[u]

C12_InsertionOrder ==
    \A t \in DOMAIN events : \A i, j \in 1..Len(events[t]) :
        i < j => events[t][i] < events[t][j]

C12_AddHandler == [][C12_Appended]_vars /\ []C12_InsertionOrder

\* add_handler has appended to a list that held a handler already.
C12_Witness ==
    /\ last.op = "add_handler"
    /\ Len(events[handlers[last.h].type]) >= 2
    /\ events[handlers[last.h].type][Len(events[handlers[last.h].type])] = last.h

C14_AbsentFieldFallback ==
    ( /\ last.op = "handle_event"
      /\ Len(Scanned) >= 1
      /\ handlers[Scanned[1]].params # << >>
      /\ \A j \in 1..Len(handlers[Scanned[1]].params) :
             last.ev[handlers[Scanned[1]].params[j].name] = NoField )
    => /\ last.err = "none"
       /\ last.sel = Scanned[1] <=>
              \A j \in 1..Len(handlers[Scanned[1]].params) :
                  LET v == handlers[Scanned[1]].params[j].matcher
                  IN  v.callable => v.onSelf

(***************************************************************************)
(* C15: once remove_handler(h) has returned true, h is not registered and  *)
(* no handle_event selects h, whatever calls follow.                       *)
(***************************************************************************)
C15_RemovedNeverInvoked ==
    /\ \A h \in removed : ~IsRegistered(h)
    /\ last.op = "handle_event" => last.sel \notin removed

\* An event that a removed catch-all handler, registered ahead of the
\* selected one, would have matched.
C15_Witness ==
    /\ last.op = "handle_event"
    /\ last.sel # 0
    /\ \E h \in removed :
           /\ handlers[h].type = last.ev.type
           /\ handlers[h].params = << >>
           /\ h < last.sel

(***************************************************************************)
(* C16: the configured logger is never an invalid sink: in every reachable *)
(* state, construction included, it is unset or a logging.Logger.          *)
(***************************************************************************)
C16_LoggerValid == logger = None \/ logger = Logger

(***************************************************************************)
(* C17: the match is a pure conjunction.  Two handlers whose filter        *)
(* mappings hold the same entries in a different order fare identically    *)
(* when scanned against an event.                                          *)
(***************************************************************************)
SameEntries(a, b) ==
    /\ Len(handlers[a].params) = Len(handlers[b].params)
    /\ { handlers[a].params[i] : i \in 1..Len(handlers[a].params) }
           = { handlers[b].params[i] : i \in 1..Len(handlers[b].params) }

C17_OrderIndependent ==
    last.op = "handle_event" =>
        \A a, b \in HandlerIds :
            SameEntries(a, b) =>
                ScanParams(handlers[a].params, last.ev, 1)
                    = ScanParams(handlers[b].params, last.ev, 1)

(***************************************************************************)
(* C18: a successful change_event_params or change_event_actions moves the *)
(* registration to the end of the list of its type: the replacement is the *)
(* last entry and the other handlers keep their relative order.            *)
(***************************************************************************)
C18_MovedToEnd ==
    [][ (last'.op \in {"change_event_params", "change_event_actions"}
            /\ last'.err = "none") =>
            LET h == last'.h
                n == last'.sel
                t == handlers[h].type
                Other(x) == x # h
            IN  /\ n \notin HandlerIds
                /\ events'[t] = Append(SelectSeq(events[t], Other), n) ]_vars

\* The changed handler was registered ahead of a handler that is now first.
C18_Witness ==
    /\ last.op = "change_event_params"
    /\ last.err = "none"
    /\ Len(events[handlers[last.h].type]) >= 2
    /\ events[handlers[last.h].type][Len(events[handlers[last.h].type])] = last.sel
    /\ last.h < events[handlers[last.h].type][1]

(***************************************************************************)
(* C19: a successful remove_handler(h) removes exactly one entry, the      *)
(* first one equal to h in the list of h's type: the list shrinks by one,  *)
(* the others keep their order, handlers registered later with the same    *)
(* content stay, and the lists of the other types are unchanged.           *)
(***************************************************************************)
C19_RemovesFirstOnly ==
    [][ (last'.op = "remove_handler" /\ last'.ret = "True") =>
            LET h == last'.h
                t == handlers[h].type
                l == events[t]
            IN  /\ DOMAIN events' = DOMAIN events
                /\ \A u \in DOMAIN events \ {t} : events'[u] = events[u]
                /\ handlers' = handlers
                /\ Len(events'[t]) = Len(l) - 1
                /\ \E i \in 1..Len(l) :
                       /\ l[i] = h
                       /\ \A k \in 1..(i - 1) : l[k] # h
                       /\ events'[t] = SubSeq(l, 1, i - 1) \o SubSeq(l, i + 1, Len(l)) ]_vars

\* A handler was removed and a later registration of the same content stays.
C19_Witness ==
    /\ last.op = "remove_handler"
    /\ last.ret = "True"
    /\ \E i \in 1..Len(events[handlers[last.h].type]) :
           LET x == events[handlers[last.h].type][i]
           IN  x > last.h /\ handlers[x] = handlers[last.h]

(***************************************************************************)
(* C20: gated suppression consumes the event.  With the session not        *)
(* running and the first handler whose filters match not always active,    *)
(* handle_event invokes nothing, returns true and selects that handler: it *)
(* does not fall through to a later handler, always active or not.         *)
(***************************************************************************)
C20_SuppressedConsumes ==
    ( /\ last.op = "handle_event"
      /\ ~running
      /\ FirstSatisfied(Scanned, last.ev) # 0
      /\ ~handlers[FirstSatisfied(Scanned, last.ev)].always_active )
    => /\ last.ret = "True"
       /\ last.err = "none"
       /\ last.sel = FirstSatisfied(Scanned, last.ev)
       /\ last.invoked = << >>

\* The suppressed handler is followed by an always-active one that matches.
C20_Witness ==
    /\ last.op = "handle_event"
    /\ ~running
    /\ last.sel # 0
    /\ ~handlers[last.sel].always_active
    /\ last.invoked = << >>
    /\ \E j \in 1..Len(Scanned) :
           /\ Scanned[j] > last.sel
           /\ handlers[Scanned[j]].always_active
           /\ AllSatisfied(Scanned[j], last.ev)

====
